---- MODULE Spec2Model ----
(***************************************************************************)
(* The inventory ledger of sodeep0/inventory-app: the Item and             *)
(* StockMovement collections and the request handlers that change them     *)
(* (backend/api/sales.ts and the JavaScript backend/api/sales.js, the      *)
(* TypeScript handlers of backend/api/returns, the items and movements     *)
(* routers).  Every handler is a sequence of awaited store calls; one      *)
(* action of the model is one awaited store call together with the         *)
(* synchronous code that follows it up to the next await.                  *)
(***************************************************************************)
EXTENDS Integers, Sequences, FiniteSets, TLC

VARIABLES items, movements, nextId, reqs, pre, view

vars == <<items, movements, nextId, reqs, pre, view>>

(***************************************************************************)
(* Bounds of the model.                                                    *)
(***************************************************************************)
MaxQty == 2
MaxStock == 2
MaxLines == 3
MaxLimit == 3

\* the suffixes of the skus of one base in the store are within 1..MaxSuffixes
MaxSuffixes == 11

Undefined == "undefined"

\* request slots: each slot carries one HTTP request of a behaviour
Reqs == {1, 2, 3}

\* the slots of the runs of two requests
SingleReqs == {1, 2}

Quantities == 1..MaxQty

Lines(skus) == [sku : skus, quantity : Quantities]

Batches(skus) == UNION {[1..n -> Lines(skus)] : n \in 1..MaxLines}

(***************************************************************************)
(* The store.  items and movements are the two collections, as functions   *)
(* from _id to document; nextId is the next StockMovement _id, which is    *)
(* also the creation time of the document (createdAt).                     *)
(***************************************************************************)
ItemDoc(u, sku, q) ==
    [userId |-> u, sku |-> sku, quantity |-> q, name |-> sku,
     lowStockThreshold |-> 0, supplierName |-> Undefined]

MovementDoc(u, itemId, type, delta, customerName, createdAt) ==
    [userId |-> u, itemId |-> itemId, type |-> type, delta |-> delta,
     customerName |-> customerName, createdAt |-> createdAt]

FindByIdAnyOwner(coll, id, u) == {x \in DOMAIN coll : x = id}

\* Model.findOne({ _id: id, userId: u }): the ids of the documents it matches
FindById(coll, id, u) == {x \in DOMAIN coll : x = id /\ coll[x].userId = u}

IncQuantityDropped(coll, id, by) == coll

\* $inc on the quantity of one item
IncQuantity(coll, id, by) == [coll EXCEPT ![id].quantity = @ + by]

\* Model.create: insert one document under a fresh _id
Insert(coll, id, doc) == coll @@ (id :> doc)

\* findByIdAndDelete / findOneAndDelete: a missing id deletes nothing
DeleteById(coll, id) == [x \in DOMAIN coll \ {id} |-> coll[x]]

(***************************************************************************)
(* A request in flight: the handler's local variables and its position.    *)
(***************************************************************************)
\* the body of POST /api/items and of PUT /api/items/:id
ItemBody(name, quantity, lowStockThreshold, supplierName) ==
    [name |-> name, quantity |-> quantity,
     lowStockThreshold |-> lowStockThreshold, supplierName |-> supplierName]

IdleReq ==
    [kind |-> "none", userId |-> Undefined, pc |-> "idle",
     items |-> <<>>, customerName |-> Undefined, idx |-> 0,
     processedItems |-> <<>>, rbIdx |-> 0, existingItem |-> 0,
     movementId |-> 0, id |-> 0, delta |-> 0, type |-> Undefined,
     returnQuantity |-> 0, item |-> ItemDoc(Undefined, Undefined, 0),
     body |-> ItemBody(Undefined, 0, 0, Undefined), sku |-> Undefined,
     status |-> 0, message |-> <<>>]

InFlight(r) == reqs[r].pc \notin {"idle", "done"}

Respond(req, status, message) ==
    [req EXCEPT !.pc = "done", !.status = status, !.message = message]

(***************************************************************************)
(* POST /api/sales (backend/api/sales.ts)                                  *)
(***************************************************************************)
SaleFilterNoGte(doc, u, line) ==
    doc.sku = line.sku /\ doc.userId = u

SaleFilterGt(doc, u, line) ==
    doc.sku = line.sku /\ doc.userId = u /\ doc.quantity > line.quantity

\* the filter of the conditional decrement
SaleFilter(doc, u, line) ==
    doc.sku = line.sku /\ doc.userId = u /\ doc.quantity >= line.quantity

SaleError(sku) == <<"Item with SKU ", sku, " not found or insufficient stock">>

BeginSale(r, u, lines, customerName) ==
    /\ reqs[r].pc = "idle"
    /\ Len(lines) > 0
    /\ reqs' = [reqs EXCEPT ![r] =
                  [IdleReq EXCEPT !.kind = "sale", !.userId = u, !.pc = "update",
                                  !.items = lines, !.customerName = customerName,
                                  !.idx = 1]]
    /\ UNCHANGED <<items, movements, nextId, view>>

SaleUpdateSkipsLine(r) ==
    LET req == reqs[r]
        line == req.items[req.idx]
        found == {id \in DOMAIN items : SaleFilter(items[id], req.userId, line)}
    IN  /\ req.kind = "sale" /\ req.pc = "update"
        /\ IF found # {}
           THEN \E id \in found :
                  /\ items' = IncQuantity(items, id, -line.quantity)
                  /\ reqs' = [reqs EXCEPT ![r].existingItem = id, ![r].pc = "create"]
           ELSE /\ UNCHANGED items
                /\ reqs' = [reqs EXCEPT ![r] =
                     IF req.idx < Len(req.items)
                     THEN [req EXCEPT !.idx = @ + 1]
                     ELSE Respond(req, 422, SaleError(line.sku))]
        /\ UNCHANGED <<movements, nextId, pre, view>>

SaleUpdate(r) ==
    LET req == reqs[r]
        line == req.items[req.idx]
        found == {id \in DOMAIN items : SaleFilter(items[id], req.userId, line)}
    IN  /\ req.kind = "sale" /\ req.pc = "update"
        /\ IF found # {}
           THEN \E id \in found :
                  /\ items' = IncQuantity(items, id, -line.quantity)
                  /\ reqs' = [reqs EXCEPT ![r].existingItem = id, ![r].pc = "create"]
           ELSE /\ UNCHANGED items
                /\ reqs' = [reqs EXCEPT ![r] =
                     IF req.processedItems = <<>>
                     THEN Respond(req, 422, SaleError(line.sku))
                     ELSE [req EXCEPT !.pc = "rollbackInc", !.rbIdx = 1]]
        /\ UNCHANGED <<movements, nextId, pre, view>>

SaleMovementPositive(req, line) ==
    MovementDoc(req.userId, req.existingItem, "sale", line.quantity,
                req.customerName, nextId)

SaleMovement(req, line) ==
    MovementDoc(req.userId, req.existingItem, "sale", -line.quantity,
                req.customerName, nextId)

SaleCreate(r) ==
    LET req == reqs[r]
        line == req.items[req.idx]
        processed == [itemId |-> req.existingItem, quantity |-> line.quantity,
                      movementId |-> nextId]
    IN  /\ req.kind = "sale" /\ req.pc = "create"
        /\ movements' = Insert(movements, nextId, SaleMovement(req, line))
        /\ nextId' = nextId + 1
        /\ reqs' = [reqs EXCEPT ![r] =
             LET pushed == [req EXCEPT !.processedItems = Append(@, processed)]
             IN  IF req.idx < Len(req.items)
                 THEN [pushed EXCEPT !.idx = @ + 1, !.pc = "update"]
                 ELSE Respond(pushed, 201, <<"Sale recorded successfully">>)]
        /\ UNCHANGED <<items, pre, view>>

RollbackLineReversed(req) ==
    req.processedItems[Len(req.processedItems) + 1 - req.rbIdx]

\* for (const processed of processedItems): the rbIdx-th line visited
RollbackLine(req) == req.processedItems[req.rbIdx]

SaleRollbackDeltaNegated(processed) == -processed.quantity

SaleRollbackDelta(processed) == processed.quantity

SaleRollbackIncAbsolute(r) ==
    LET req == reqs[r]
        processed == RollbackLine(req)
    IN  /\ req.kind = "sale" /\ req.pc = "rollbackInc"
        /\ items' = [items EXCEPT ![processed.itemId].quantity =
                        pre.items[processed.itemId].quantity]
        /\ reqs' = [reqs EXCEPT ![r].pc = "rollbackDel"]
        /\ UNCHANGED <<movements, nextId, pre, view>>

SaleRollbackInc(r) ==
    LET req == reqs[r]
        processed == RollbackLine(req)
        found == FindById(items, processed.itemId, req.userId)
    IN  /\ req.kind = "sale" /\ req.pc = "rollbackInc"
        /\ items' = IF found # {}
                    THEN IncQuantity(items, processed.itemId, SaleRollbackDelta(processed))
                    ELSE items
        /\ reqs' = [reqs EXCEPT ![r].pc = "rollbackDel"]
        /\ UNCHANGED <<movements, nextId, pre, view>>

SaleRollbackDel(r) ==
    LET req == reqs[r]
        processed == RollbackLine(req)
    IN  /\ req.kind = "sale" /\ req.pc = "rollbackDel"
        /\ movements' = DeleteById(movements, processed.movementId)
        /\ reqs' = [reqs EXCEPT ![r] =
             IF req.rbIdx < Len(req.processedItems)
             THEN [req EXCEPT !.rbIdx = @ + 1, !.pc = "rollbackInc"]
             ELSE Respond(req, 422, SaleError(req.items[req.idx].sku))]
        /\ UNCHANGED <<items, nextId, pre, view>>

SaleStep(r) ==
    \/ SaleUpdate(r)
    \/ SaleCreate(r)
    \/ SaleRollbackInc(r)
    \/ SaleRollbackDel(r)

(***************************************************************************)
(* POST /api/returns (the TypeScript handler in backend/api/returns.js)    *)
(***************************************************************************)
ReturnFilter(doc, u, line) ==
    doc.sku = line.sku /\ doc.userId = u

ReturnError(sku) == <<"Item with SKU ", sku, " not found">>

BeginReturn(r, u, lines) ==
    /\ reqs[r].pc = "idle"
    /\ Len(lines) > 0
    /\ reqs' = [reqs EXCEPT ![r] =
                  [IdleReq EXCEPT !.kind = "return", !.userId = u, !.pc = "update",
                                  !.items = lines, !.idx = 1]]
    /\ UNCHANGED <<items, movements, nextId, view>>

ReturnUpdate(r) ==
    LET req == reqs[r]
        line == req.items[req.idx]
        found == {id \in DOMAIN items : ReturnFilter(items[id], req.userId, line)}
    IN  /\ req.kind = "return" /\ req.pc = "update"
        /\ IF found # {}
           THEN \E id \in found :
                  /\ items' = IncQuantity(items, id, line.quantity)
                  /\ reqs' = [reqs EXCEPT ![r].existingItem = id, ![r].pc = "create"]
           ELSE /\ UNCHANGED items
                /\ reqs' = [reqs EXCEPT ![r] =
                     IF req.processedItems = <<>>
                     THEN Respond(req, 422, ReturnError(line.sku))
                     ELSE [req EXCEPT !.pc = "rollbackInc", !.rbIdx = 1]]
        /\ UNCHANGED <<movements, nextId, pre, view>>

ReturnMovement(req, line) ==
    MovementDoc(req.userId, req.existingItem, "return", line.quantity,
                Undefined, nextId)

ReturnCreate(r) ==
    LET req == reqs[r]
        line == req.items[req.idx]
        processed == [itemId |-> req.existingItem, quantity |-> line.quantity,
                      movementId |-> nextId]
    IN  /\ req.kind = "return" /\ req.pc = "create"
        /\ movements' = Insert(movements, nextId, ReturnMovement(req, line))
        /\ nextId' = nextId + 1
        /\ reqs' = [reqs EXCEPT ![r] =
             LET pushed == [req EXCEPT !.processedItems = Append(@, processed)]
             IN  IF req.idx < Len(req.items)
                 THEN [pushed EXCEPT !.idx = @ + 1, !.pc = "update"]
                 ELSE Respond(pushed, 201, <<"Return recorded successfully">>)]
        /\ UNCHANGED <<items, pre, view>>

ReturnRollbackDeltaPositive(processed) == processed.quantity

ReturnRollbackDelta(processed) == -processed.quantity

ReturnRollbackInc(r) ==
    LET req == reqs[r]
        processed == RollbackLine(req)
        found == FindById(items, processed.itemId, req.userId)
    IN  /\ req.kind = "return" /\ req.pc = "rollbackInc"
        /\ items' = IF found # {}
                    THEN IncQuantity(items, processed.itemId, ReturnRollbackDelta(processed))
                    ELSE items
        /\ reqs' = [reqs EXCEPT ![r].pc = "rollbackDel"]
        /\ UNCHANGED <<movements, nextId, pre, view>>

ReturnRollbackDel(r) ==
    LET req == reqs[r]
        processed == RollbackLine(req)
    IN  /\ req.kind = "return" /\ req.pc = "rollbackDel"
        /\ movements' = DeleteById(movements, processed.movementId)
        /\ reqs' = [reqs EXCEPT ![r] =
             IF req.rbIdx < Len(req.processedItems)
             THEN [req EXCEPT !.rbIdx = @ + 1, !.pc = "rollbackInc"]
             ELSE Respond(req, 422, ReturnError(req.items[req.idx].sku))]
        /\ UNCHANGED <<items, nextId, pre, view>>

ReturnStep(r) ==
    \/ ReturnUpdate(r)
    \/ ReturnCreate(r)
    \/ ReturnRollbackInc(r)
    \/ ReturnRollbackDel(r)

(***************************************************************************)
(* POST /api/returns/from-movement/:movementId (TypeScript handler)        *)
(***************************************************************************)
IsOutgoing(movement) == movement.delta < 0

IsSale(movement) == movement.type = "sale"

ReturnQuantityNotNegated(originalMovement) == originalMovement.delta

ReturnQuantity(originalMovement) == -originalMovement.delta

BeginReverse(r, u, movementId) ==
    /\ reqs[r].pc = "idle"
    /\ reqs' = [reqs EXCEPT ![r] =
                  [IdleReq EXCEPT !.kind = "reverse", !.userId = u,
                                  !.pc = "findMovement", !.movementId = movementId]]
    /\ UNCHANGED <<items, movements, nextId, view>>

ReverseFindMovement(r) ==
    LET req == reqs[r]
        found == FindById(movements, req.movementId, req.userId)
    IN  /\ req.kind = "reverse" /\ req.pc = "findMovement"
        /\ reqs' = [reqs EXCEPT ![r] =
             IF found = {}
             THEN Respond(req, 404, <<"Original movement not found">>)
             ELSE LET originalMovement == movements[req.movementId]
                  IN  IF ~IsSale(originalMovement)
                      THEN Respond(req, 400, <<"Only sale transactions can be returned">>)
                      ELSE [req EXCEPT !.pc = "update",
                                       !.returnQuantity = ReturnQuantity(originalMovement),
                                       !.id = originalMovement.itemId,
                                       !.customerName = originalMovement.customerName]]
        /\ UNCHANGED <<items, movements, nextId, pre, view>>

ReverseUpdateUnchecked(r) ==
    LET req == reqs[r]
        found == FindById(items, req.id, req.userId)
    IN  /\ req.kind = "reverse" /\ req.pc = "update"
        /\ items' = IF found # {}
                    THEN IncQuantity(items, req.id, req.returnQuantity)
                    ELSE items
        /\ reqs' = [reqs EXCEPT ![r].existingItem = req.id, ![r].pc = "create"]
        /\ UNCHANGED <<movements, nextId, pre, view>>

ReverseUpdate(r) ==
    LET req == reqs[r]
        found == FindById(items, req.id, req.userId)
    IN  /\ req.kind = "reverse" /\ req.pc = "update"
        /\ IF found # {}
           THEN /\ items' = IncQuantity(items, req.id, req.returnQuantity)
                /\ reqs' = [reqs EXCEPT ![r].existingItem = req.id, ![r].pc = "create"]
           ELSE /\ UNCHANGED items
                /\ reqs' = [reqs EXCEPT ![r] =
                              Respond(req, 500, <<"Associated item not found">>)]
        /\ UNCHANGED <<movements, nextId, pre, view>>

ReverseMovement(req) ==
    MovementDoc(req.userId, req.existingItem, "return", req.returnQuantity,
                req.customerName, nextId)

ReverseCreate(r) ==
    LET req == reqs[r]
    IN  /\ req.kind = "reverse" /\ req.pc = "create"
        /\ movements' = Insert(movements, nextId, ReverseMovement(req))
        /\ nextId' = nextId + 1
        /\ reqs' = [reqs EXCEPT ![r] =
                      Respond(req, 201, <<"Return recorded successfully">>)]
        /\ UNCHANGED <<items, pre, view>>

ReverseStep(r) ==
    \/ ReverseFindMovement(r)
    \/ ReverseUpdate(r)
    \/ ReverseCreate(r)

(***************************************************************************)
(* Numbers as text: String(n), the template literal `${n}`, and            *)
(* parseInt(s, 10).  A string is a sequence of one-character strings.      *)
(***************************************************************************)
Digits == <<"0", "1", "2", "3", "4", "5", "6", "7", "8", "9">>

IsDigit(c) == \E d \in 1..Len(Digits) : Digits[d] = c

DigitValue(c) == (CHOOSE d \in 1..Len(Digits) : Digits[d] = c) - 1

RECURSIVE NatToString(_)
NatToString(n) ==
    IF n < Len(Digits)
    THEN <<Digits[n + 1]>>
    ELSE Append(NatToString(n \div Len(Digits)), Digits[(n % Len(Digits)) + 1])

NumberToString(n) == IF n < 0 THEN <<"-">> \o NatToString(-n) ELSE NatToString(n)

NaN == "NaN"

RECURSIVE ParseDigits(_, _)
ParseDigits(s, acc) ==
    IF s = <<>> \/ ~IsDigit(Head(s))
    THEN acc
    ELSE ParseDigits(Tail(s), acc * Len(Digits) + DigitValue(Head(s)))

ParseInt(s) ==
    LET signed == s # <<>> /\ Head(s) \in {"-", "+"}
        body == IF signed THEN Tail(s) ELSE s
    IN  IF body = <<>> \/ ~IsDigit(Head(body))
        THEN NaN
        ELSE IF signed /\ Head(s) = "-"
             THEN -ParseDigits(body, 0)
             ELSE ParseDigits(body, 0)

(***************************************************************************)
(* POST /api/items/:id/adjust (items router)                               *)
(***************************************************************************)
AllowedTypes == {"sale", "return", "adjustment", "purchase", "initial"}

MovementTypeInferFirst(type, delta) ==
    IF ParseInt(NumberToString(delta)) > 0
    THEN "purchase"
    ELSE IF type \in AllowedTypes THEN type ELSE "adjustment"

MovementType(type, delta) ==
    IF type \in AllowedTypes
    THEN type
    ELSE IF ParseInt(NumberToString(delta)) > 0
         THEN "purchase"
         ELSE "adjustment"

AdjustError(id) == <<"Item with id ", id, " not found">>

BeginAdjust(r, u, id, delta, type) ==
    /\ reqs[r].pc = "idle"
    /\ delta # 0
    /\ type \in AllowedTypes \cup {Undefined}
    /\ reqs' = [reqs EXCEPT ![r] =
                  [IdleReq EXCEPT !.kind = "adjust", !.userId = u, !.pc = "find",
                                  !.id = id, !.delta = delta, !.type = type]]
    /\ UNCHANGED <<items, movements, nextId, view>>

AdjustFind(r) ==
    LET req == reqs[r]
        found == FindById(items, req.id, req.userId)
    IN  /\ req.kind = "adjust" /\ req.pc = "find"
        /\ reqs' = [reqs EXCEPT ![r] =
             IF found = {}
             THEN Respond(req, 422, AdjustError(req.id))
             ELSE [req EXCEPT !.item = items[req.id], !.pc = "save"]]
        /\ UNCHANGED <<items, movements, nextId, pre, view>>

\* item.quantity += parseInt(delta, 10)
AdjustedQuantity(item, delta) == item.quantity + ParseInt(NumberToString(delta))

AdjustSaveSkipped(r) ==
    /\ reqs[r].kind = "adjust" /\ reqs[r].pc = "save"
    /\ reqs' = [reqs EXCEPT ![r].pc = "create", ![r].existingItem = reqs[r].id]
    /\ UNCHANGED <<items, movements, nextId, pre, view>>

\* item.save(): writes the changed quantity of the document read before
AdjustSave(r) ==
    LET req == reqs[r]
    IN  /\ req.kind = "adjust" /\ req.pc = "save"
        /\ IF req.id \in DOMAIN items
           THEN /\ items' = [items EXCEPT ![req.id].quantity =
                                AdjustedQuantity(req.item, req.delta)]
                /\ reqs' = [reqs EXCEPT ![r].pc = "create",
                                        ![r].existingItem = req.id]
           ELSE /\ UNCHANGED items
                /\ reqs' = [reqs EXCEPT ![r] =
                              Respond(req, 422, <<"No document found for query">>)]
        /\ UNCHANGED <<movements, nextId, pre, view>>

AdjustMovement(req) ==
    MovementDoc(req.userId, req.existingItem, MovementType(req.type, req.delta),
                ParseInt(NumberToString(req.delta)), Undefined, nextId)

AdjustCreate(r) ==
    LET req == reqs[r]
    IN  /\ req.kind = "adjust" /\ req.pc = "create"
        /\ movements' = Insert(movements, nextId, AdjustMovement(req))
        /\ nextId' = nextId + 1
        /\ reqs' = [reqs EXCEPT ![r] =
                      Respond(req, 201, <<"Adjustment recorded successfully">>)]
        /\ UNCHANGED <<items, pre, view>>

AdjustStep(r) ==
    \/ AdjustFind(r)
    \/ AdjustSave(r)
    \/ AdjustCreate(r)

(***************************************************************************)
(* GET /api/movements/item/:itemId (movements router)                      *)
(***************************************************************************)
\* a query-string parameter: absent, or a string
NoParam == [defined |-> FALSE, str |-> <<>>]

Param(str) == [defined |-> TRUE, str |-> str]

\* JavaScript truthiness of a query-string parameter
Truthy(param) == param.defined /\ param.str # <<>>

\* req.query.x || fallback
OrElse(param, fallback) == IF Truthy(param) THEN param.str ELSE fallback

Null == [null |-> TRUE, value |-> 0]

NotNull(n) == [null |-> FALSE, value |-> n]

\* req.query.startingQuantity ? parseInt(req.query.startingQuantity, 10) : null
StartingQuantityFalsyZero(query) ==
    IF Truthy(query.startingQuantity) /\ ParseInt(query.startingQuantity.str) # 0
    THEN NotNull(ParseInt(query.startingQuantity.str))
    ELSE Null

StartingQuantity(query) ==
    IF Truthy(query.startingQuantity)
    THEN NotNull(ParseInt(query.startingQuantity.str))
    ELSE Null

\* .sort({ createdAt: -1 })
RECURSIVE SortNewestFirst(_, _)
SortNewestFirst(coll, ids) ==
    IF ids = {}
    THEN <<>>
    ELSE LET newest == CHOOSE id \in ids :
                          \A other \in ids : coll[other].createdAt <= coll[id].createdAt
         IN  <<newest>> \o SortNewestFirst(coll, ids \ {newest})

\* .skip(skip).limit(limit)
SkipLimit(seq, skip, limit) ==
    SubSeq(seq, skip + 1, IF skip + limit < Len(seq) THEN skip + limit ELSE Len(seq))

\* runningQuantity -= movement.delta
UndoMovementAdd(runningQuantity, movement) == runningQuantity + movement.delta

UndoMovement(runningQuantity, movement) == runningQuantity - movement.delta

\* movements.map(...): each row carries the running quantity before it is undone
RECURSIVE MovementsWithRunningQuantity(_, _, _)
MovementsWithRunningQuantity(coll, ids, runningQuantity) ==
    IF ids = <<>>
    THEN [movements |-> <<>>, continuationQuantity |-> runningQuantity]
    ELSE LET movement == coll[Head(ids)]
             row == [id |-> Head(ids), delta |-> movement.delta,
                     type |-> movement.type, runningQuantity |-> runningQuantity]
             rest == MovementsWithRunningQuantity(coll, Tail(ids),
                         UndoMovement(runningQuantity, movement))
         IN  [movements |-> <<row>> \o rest.movements,
              continuationQuantity |-> rest.continuationQuantity]

ItemMovementIds(u, itemId) ==
    SortNewestFirst(movements,
        {id \in DOMAIN movements :
            movements[id].itemId = itemId /\ movements[id].userId = u})

\* the whole handler: its reads see one state of the store
GetItemMovements(u, itemId, query) ==
    LET page == ParseInt(OrElse(query.page, <<"1">>))
        limit == ParseInt(OrElse(query.limit, <<"1", "0">>))
        startingQuantity == StartingQuantity(query)
        skip == (page - 1) * limit
        all == ItemMovementIds(u, itemId)
        ids == SkipLimit(all, skip, limit)
        item == FindById(items, itemId, u)
    IN  IF startingQuantity.null /\ item = {}
        THEN [status |-> 404, movements |-> <<>>, total |-> 0,
              continuationQuantity |-> 0]
        ELSE LET runningQuantity == IF ~startingQuantity.null
                                    THEN startingQuantity.value
                                    ELSE items[itemId].quantity
                 mapped == MovementsWithRunningQuantity(movements, ids, runningQuantity)
             IN  [status |-> 200, movements |-> mapped.movements, total |-> Len(all),
                  continuationQuantity |-> mapped.continuationQuantity]

(***************************************************************************)
(* The item page of the frontend (fetchItemMovements, loadMore).  The      *)
(* fields quantity0, history0 and intact are history variables: the item's *)
(* quantity and movements when page 1 was read, and whether every later    *)
(* page was read with the same movements in the store.                     *)
(***************************************************************************)
NoView ==
    [itemId |-> 0, userId |-> Undefined, limit |-> 0, page |-> 0,
     movements |-> <<>>, total |-> 0, continuationQuantity |-> 0,
     quantity0 |-> 0, history0 |-> <<>>, intact |-> FALSE]

History(u, itemId) ==
    LET ids == ItemMovementIds(u, itemId)
    IN  [i \in 1..Len(ids) |-> [id |-> ids[i], delta |-> movements[ids[i]].delta]]

FetchItemMovements(u, itemId, limit) ==
    LET query == [page |-> Param(NumberToString(1)),
                  limit |-> Param(NumberToString(limit)),
                  startingQuantity |-> NoParam]
        res == GetItemMovements(u, itemId, query)
    IN  /\ res.status = 200
        /\ view' = [itemId |-> itemId, userId |-> u, limit |-> limit, page |-> 1,
                    movements |-> res.movements, total |-> res.total,
                    continuationQuantity |-> res.continuationQuantity,
                    quantity0 |-> items[itemId].quantity,
                    history0 |-> History(u, itemId), intact |-> TRUE]
        /\ UNCHANGED <<items, movements, nextId, reqs, pre>>

LoadMore ==
    LET nextPage == view.page + 1
        query == [page |-> Param(NumberToString(nextPage)),
                  limit |-> Param(NumberToString(view.limit)),
                  startingQuantity |-> Param(NumberToString(view.continuationQuantity))]
        res == GetItemMovements(view.userId, view.itemId, query)
    IN  /\ view.itemId # 0
        /\ Len(view.movements) < view.total
        /\ res.status = 200
        /\ view' = [view EXCEPT !.movements = @ \o res.movements,
                                !.page = nextPage,
                                !.continuationQuantity = res.continuationQuantity,
                                !.intact = @ /\ History(view.userId, view.itemId)
                                                  = view.history0]
        /\ UNCHANGED <<items, movements, nextId, reqs, pre>>

(***************************************************************************)
(* POST /api/items (items router): generateUniqueSku, the item, and its    *)
(* "initial" movement.  An item's _id is drawn from the same counter as    *)
(* the movements' ids.                                                     *)
(***************************************************************************)
\* name.toLowerCase() for the names of the model
LowerCase(name) == IF name = "D" THEN "d" ELSE name

GenerateSkuFromName(name) == LowerCase(name)

\* `${baseSku}-${n}`
Suffixed(baseSku, n) == baseSku \o "-" \o ToString(n)

\* the order of two digit strings in a string sort (code unit by code unit;
\* a proper prefix sorts first)
RECURSIVE StringLess(_, _)
StringLess(s, t) ==
    IF t = <<>> THEN FALSE
    ELSE IF s = <<>> THEN TRUE
    ELSE IF Head(s) = Head(t) THEN StringLess(Tail(s), Tail(t))
    ELSE DigitValue(Head(s)) < DigitValue(Head(t))

\* maxSuffix: the suffix of the first sku of find({ sku: pattern })
\* .sort({ sku: -1 }).limit(1), 0 when that sku is baseSku itself; the skus
\* baseSku-n share their prefix, so their string order is that of the digits
MaxSuffix(coll, baseSku) ==
    LET used == {n \in 1..MaxSuffixes :
                    \E id \in DOMAIN coll : coll[id].sku = Suffixed(baseSku, n)}
        first == CHOOSE n \in used :
                    \A m \in used \ {n} : StringLess(NatToString(m), NatToString(n))
    IN  IF used = {} THEN 0 ELSE ParseInt(NatToString(first))

BeginCreate(r, u, body) ==
    /\ reqs[r].pc = "idle"
    /\ body.quantity >= 0 /\ body.lowStockThreshold >= 0
    /\ reqs' = [reqs EXCEPT ![r] =
                  [IdleReq EXCEPT !.kind = "create", !.userId = u, !.pc = "skuFind",
                                  !.body = body]]
    /\ UNCHANGED <<items, movements, nextId, view>>

\* generateUniqueSku: Item.findOne({ sku: baseSku })
CreateSkuFind(r) ==
    LET req == reqs[r]
        baseSku == GenerateSkuFromName(req.body.name)
        existing == {id \in DOMAIN items : items[id].sku = baseSku}
    IN  /\ req.kind = "create" /\ req.pc = "skuFind"
        /\ reqs' = [reqs EXCEPT ![r] =
             IF existing = {}
             THEN [req EXCEPT !.sku = baseSku, !.pc = "save"]
             ELSE [req EXCEPT !.pc = "skuList"]]
        /\ UNCHANGED <<items, movements, nextId, pre, view>>

\* generateUniqueSku: Item.find({ sku: pattern }).sort({ sku: -1 }).limit(1)
CreateSkuList(r) ==
    LET req == reqs[r]
        baseSku == GenerateSkuFromName(req.body.name)
    IN  /\ req.kind = "create" /\ req.pc = "skuList"
        /\ reqs' = [reqs EXCEPT ![r].sku = Suffixed(baseSku, MaxSuffix(items, baseSku) + 1),
                                ![r].pc = "save"]
        /\ UNCHANGED <<items, movements, nextId, pre, view>>

NewItem(req) ==
    [ItemDoc(req.userId, req.sku, req.body.quantity)
       EXCEPT !.name = req.body.name,
              !.lowStockThreshold = req.body.lowStockThreshold,
              !.supplierName = req.body.supplierName]

\* newItem.save(): the index on sku is unique (error code 11000)
CreateSave(r) ==
    LET req == reqs[r]
        duplicate == {id \in DOMAIN items : items[id].sku = req.sku}
    IN  /\ req.kind = "create" /\ req.pc = "save"
        /\ IF duplicate = {}
           THEN /\ items' = Insert(items, nextId, NewItem(req))
                /\ nextId' = nextId + 1
                /\ reqs' = [reqs EXCEPT ![r].existingItem = nextId,
                                        ![r].pc = "createMovement"]
           ELSE /\ UNCHANGED <<items, nextId>>
                /\ reqs' = [reqs EXCEPT ![r] = Respond(req, 409, <<"SKU already exists">>)]
        /\ UNCHANGED <<movements, pre, view>>

InitialMovementZero(req) ==
    MovementDoc(req.userId, req.existingItem, "initial", 0, Undefined, nextId)

InitialMovement(req) ==
    MovementDoc(req.userId, req.existingItem, "initial", req.body.quantity,
                Undefined, nextId)

CreateMovement(r) ==
    LET req == reqs[r]
    IN  /\ req.kind = "create" /\ req.pc = "createMovement"
        /\ movements' = Insert(movements, nextId, InitialMovement(req))
        /\ nextId' = nextId + 1
        /\ reqs' = [reqs EXCEPT ![r] = Respond(req, 201, <<>>)]
        /\ UNCHANGED <<items, pre, view>>

\* StockMovement.create rejects (a storage error): the handler's catch
CreateMovementThrows(r) ==
    LET req == reqs[r]
    IN  /\ req.kind = "create" /\ req.pc = "createMovement"
        /\ reqs' = [reqs EXCEPT ![r] = Respond(req, 500, <<"Internal Server Error">>)]
        /\ UNCHANGED <<items, movements, nextId, pre, view>>

CreateStep(r) ==
    \/ CreateSkuFind(r)
    \/ CreateSkuList(r)
    \/ CreateSave(r)
    \/ CreateMovement(r)
    \/ CreateMovementThrows(r)

(***************************************************************************)
(* PUT /api/items/:id (items router)                                       *)
(***************************************************************************)
BeginUpdate(r, u, id, body) ==
    /\ reqs[r].pc = "idle"
    /\ body.quantity >= 0 /\ body.lowStockThreshold >= 0
    /\ reqs' = [reqs EXCEPT ![r] =
                  [IdleReq EXCEPT !.kind = "update", !.userId = u, !.pc = "find",
                                  !.id = id, !.body = body]]
    /\ UNCHANGED <<items, movements, nextId, view>>

UpdateFind(r) ==
    LET req == reqs[r]
        found == FindById(items, req.id, req.userId)
    IN  /\ req.kind = "update" /\ req.pc = "find"
        /\ reqs' = [reqs EXCEPT ![r] =
             IF found = {}
             THEN Respond(req, 404, <<"Item not found">>)
             ELSE [req EXCEPT !.item = items[req.id], !.pc = "save"]]
        /\ UNCHANGED <<items, movements, nextId, pre, view>>

\* item.name = name; item.quantity = parseInt(quantity, 10); ...
UpdatedItem(item, body) ==
    [item EXCEPT !.name = body.name,
                 !.quantity = ParseInt(NumberToString(body.quantity)),
                 !.lowStockThreshold = ParseInt(NumberToString(body.lowStockThreshold)),
                 !.supplierName = body.supplierName]

\* item.save(): writes the paths whose value differs from the document read
SavedItem(stored, read, changed) ==
    [field \in DOMAIN stored |->
        IF changed[field] # read[field] THEN changed[field] ELSE stored[field]]

UpdateSave(r) ==
    LET req == reqs[r]
    IN  /\ req.kind = "update" /\ req.pc = "save"
        /\ IF req.id \in DOMAIN items
           THEN /\ items' = [items EXCEPT ![req.id] =
                                SavedItem(@, req.item, UpdatedItem(req.item, req.body))]
                /\ reqs' = [reqs EXCEPT ![r] =
                              Respond(req, 200, <<"Item updated successfully">>)]
           ELSE /\ UNCHANGED items
                /\ reqs' = [reqs EXCEPT ![r] =
                              Respond(req, 500, <<"Internal Server Error">>)]
        /\ UNCHANGED <<movements, nextId, pre, view>>

UpdateStep(r) ==
    \/ UpdateFind(r)
    \/ UpdateSave(r)

(***************************************************************************)
(* DELETE /api/items/:id (items router)                                    *)
(***************************************************************************)
BeginDelete(r, u, id) ==
    /\ reqs[r].pc = "idle"
    /\ reqs' = [reqs EXCEPT ![r] =
                  [IdleReq EXCEPT !.kind = "delete", !.userId = u,
                                  !.pc = "findOneAndDelete", !.id = id]]
    /\ UNCHANGED <<items, movements, nextId, view>>

\* Item.findOneAndDelete({ _id: id, userId })
DeleteItem(r) ==
    LET req == reqs[r]
        found == FindById(items, req.id, req.userId)
    IN  /\ req.kind = "delete" /\ req.pc = "findOneAndDelete"
        /\ IF found = {}
           THEN /\ UNCHANGED items
                /\ reqs' = [reqs EXCEPT ![r] = Respond(req, 404, <<"Item not found">>)]
           ELSE /\ items' = DeleteById(items, req.id)
                /\ reqs' = [reqs EXCEPT ![r].pc = "deleteMany"]
        /\ UNCHANGED <<movements, nextId, pre, view>>

DeleteManyFilterOwner(movement, id, u) == movement.userId = u

\* the filter of StockMovement.deleteMany({ itemId: id, userId })
DeleteManyFilter(movement, id, u) == movement.itemId = id /\ movement.userId = u

DeleteMovements(r) ==
    LET req == reqs[r]
        kept == {m \in DOMAIN movements : ~DeleteManyFilter(movements[m], req.id, req.userId)}
    IN  /\ req.kind = "delete" /\ req.pc = "deleteMany"
        /\ movements' = [m \in kept |-> movements[m]]
        /\ reqs' = [reqs EXCEPT ![r] =
             Respond(req, 200, <<"Item and associated movements deleted successfully">>)]
        /\ UNCHANGED <<items, nextId, pre, view>>

DeleteStep(r) ==
    \/ DeleteItem(r)
    \/ DeleteMovements(r)

(***************************************************************************)
(* POST /api/sales, the JavaScript handler (backend/api/sales.js): per     *)
(* line a findOne, the stock check on the document read, and a save of     *)
(* that document.                                                          *)
(***************************************************************************)
JsSaleNotFound(sku) == <<"Item with SKU ", sku, " not found">>

JsSaleInsufficient(sku) == <<"Insufficient stock for SKU ", sku>>

BeginJsSale(r, u, lines, customerName) ==
    /\ reqs[r].pc = "idle"
    /\ Len(lines) > 0
    /\ reqs' = [reqs EXCEPT ![r] =
                  [IdleReq EXCEPT !.kind = "jsSale", !.userId = u, !.pc = "find",
                                  !.items = lines, !.customerName = customerName,
                                  !.idx = 1]]
    /\ UNCHANGED <<items, movements, nextId, view>>

\* Item.findOne({ sku, userId }) and the two checks on the document read
JsSaleFind(r) ==
    LET req == reqs[r]
        line == req.items[req.idx]
        found == {id \in DOMAIN items :
                    items[id].sku = line.sku /\ items[id].userId = req.userId}
    IN  /\ req.kind = "jsSale" /\ req.pc = "find"
        /\ IF found = {}
           THEN reqs' = [reqs EXCEPT ![r] = Respond(req, 422, JsSaleNotFound(line.sku))]
           ELSE \E id \in found :
                  reqs' = [reqs EXCEPT ![r] =
                    IF items[id].quantity < line.quantity
                    THEN Respond(req, 422, JsSaleInsufficient(line.sku))
                    ELSE [req EXCEPT !.item = items[id], !.existingItem = id,
                                     !.pc = "save"]]
        /\ UNCHANGED <<items, movements, nextId, pre, view>>

\* existingItem.quantity -= item.quantity; existingItem.save()
JsSaleSave(r) ==
    LET req == reqs[r]
        line == req.items[req.idx]
    IN  /\ req.kind = "jsSale" /\ req.pc = "save"
        /\ IF req.existingItem \in DOMAIN items
           THEN /\ items' = [items EXCEPT ![req.existingItem].quantity =
                                req.item.quantity - line.quantity]
                /\ reqs' = [reqs EXCEPT ![r].pc = "create"]
           ELSE /\ UNCHANGED items
                /\ reqs' = [reqs EXCEPT ![r] =
                              Respond(req, 422, <<"No document found for query">>)]
        /\ UNCHANGED <<movements, nextId, pre, view>>

JsSaleCreate(r) ==
    LET req == reqs[r]
        line == req.items[req.idx]
    IN  /\ req.kind = "jsSale" /\ req.pc = "create"
        /\ movements' = Insert(movements, nextId, SaleMovement(req, line))
        /\ nextId' = nextId + 1
        /\ reqs' = [reqs EXCEPT ![r] =
             IF req.idx < Len(req.items)
             THEN [req EXCEPT !.idx = @ + 1, !.pc = "find"]
             ELSE Respond(req, 201, <<"Sale recorded successfully">>)]
        /\ UNCHANGED <<items, pre, view>>

JsSaleStep(r) ==
    \/ JsSaleFind(r)
    \/ JsSaleSave(r)
    \/ JsSaleCreate(r)

(***************************************************************************)
(* Storage errors in the sale and return handlers: an awaited store call   *)
(* of the loop body rejects and control passes to the handler's catch.     *)
(***************************************************************************)
\* error.message of a rejected store call
StorageError(call) == <<"storage error", call>>

\* Item.findOneAndUpdate of a sale line rejects
SaleUpdateThrows(r) ==
    LET req == reqs[r]
    IN  /\ req.kind = "sale" /\ req.pc = "update"
        /\ reqs' = [reqs EXCEPT ![r] = Respond(req, 422, StorageError("update"))]
        /\ UNCHANGED <<items, movements, nextId, pre, view>>

\* StockMovement.create of a sale line rejects
SaleCreateThrows(r) ==
    LET req == reqs[r]
    IN  /\ req.kind = "sale" /\ req.pc = "create"
        /\ reqs' = [reqs EXCEPT ![r] = Respond(req, 422, StorageError("create"))]
        /\ UNCHANGED <<items, movements, nextId, pre, view>>

\* Item.findOneAndUpdate of a return line rejects
ReturnUpdateThrows(r) ==
    LET req == reqs[r]
    IN  /\ req.kind = "return" /\ req.pc = "update"
        /\ reqs' = [reqs EXCEPT ![r] = Respond(req, 422, StorageError("update"))]
        /\ UNCHANGED <<items, movements, nextId, pre, view>>

\* StockMovement.create of a return line rejects
ReturnCreateThrows(r) ==
    LET req == reqs[r]
    IN  /\ req.kind = "return" /\ req.pc = "create"
        /\ reqs' = [reqs EXCEPT ![r] = Respond(req, 422, StorageError("create"))]
        /\ UNCHANGED <<items, movements, nextId, pre, view>>

(***************************************************************************)
(* Storage errors in the rollback loops: the awaited call rejects and its  *)
(* .catch logs the error; the loop goes on.                                *)
(***************************************************************************)
SaleRollbackIncRethrown(r) ==
    /\ reqs[r].kind = "sale" /\ reqs[r].pc = "rollbackInc"
    /\ reqs' = [reqs EXCEPT ![r] = Respond(reqs[r], 422, StorageError("rollback"))]
    /\ UNCHANGED <<items, movements, nextId, pre, view>>

\* the rollback findOneAndUpdate of a sale rejects: .catch(console.error)
SaleRollbackIncThrows(r) ==
    /\ reqs[r].kind = "sale" /\ reqs[r].pc = "rollbackInc"
    /\ reqs' = [reqs EXCEPT ![r].pc = "rollbackDel"]
    /\ UNCHANGED <<items, movements, nextId, pre, view>>

\* the rollback findByIdAndDelete of a sale rejects: .catch(console.error)
SaleRollbackDelThrows(r) ==
    LET req == reqs[r]
    IN  /\ req.kind = "sale" /\ req.pc = "rollbackDel"
        /\ reqs' = [reqs EXCEPT ![r] =
             IF req.rbIdx < Len(req.processedItems)
             THEN [req EXCEPT !.rbIdx = @ + 1, !.pc = "rollbackInc"]
             ELSE Respond(req, 422, SaleError(req.items[req.idx].sku))]
        /\ UNCHANGED <<items, movements, nextId, pre, view>>

\* the rollback findOneAndUpdate of a return rejects: .catch(console.error)
ReturnRollbackIncThrows(r) ==
    /\ reqs[r].kind = "return" /\ reqs[r].pc = "rollbackInc"
    /\ reqs' = [reqs EXCEPT ![r].pc = "rollbackDel"]
    /\ UNCHANGED <<items, movements, nextId, pre, view>>

\* the rollback findByIdAndDelete of a return rejects: .catch(console.error)
ReturnRollbackDelThrows(r) ==
    LET req == reqs[r]
    IN  /\ req.kind = "return" /\ req.pc = "rollbackDel"
        /\ reqs' = [reqs EXCEPT ![r] =
             IF req.rbIdx < Len(req.processedItems)
             THEN [req EXCEPT !.rbIdx = @ + 1, !.pc = "rollbackInc"]
             ELSE Respond(req, 422, ReturnError(req.items[req.idx].sku))]
        /\ UNCHANGED <<items, movements, nextId, pre, view>>

(***************************************************************************)
(* Initial states: principal u1 has created items "a" and "b", principal   *)
(* u2 item "c" (POST /api/items: the item and its "initial" movement).     *)
(***************************************************************************)
InitStore(qa, qb, qc) ==
    /\ items = (1 :> ItemDoc("u1", "a", qa)) @@ (2 :> ItemDoc("u1", "b", qb))
                 @@ (3 :> ItemDoc("u2", "c", qc))
    /\ movements = (1 :> MovementDoc("u1", 1, "initial", qa, Undefined, 1))
                     @@ (2 :> MovementDoc("u1", 2, "initial", qb, Undefined, 2))
                     @@ (3 :> MovementDoc("u2", 3, "initial", qc, Undefined, 3))
    /\ nextId = 4

\* the initial states in which item "a" holds a stock in stockA, "b" in stockB
InitWith(stockA, stockB) ==
    /\ \E qa \in stockA, qb \in stockB : InitStore(qa, qb, 1)
    /\ reqs = [r \in Reqs |-> IdleReq]
    /\ pre = [req |-> 0, items |-> items, movements |-> movements]
    /\ view = NoView

Init == InitWith(0..MaxStock, 0..MaxStock)

\* only item "a" is used: item "b" is empty
InitA == InitWith(0..MaxStock, {0})

\* requests begin in the order of their slots (the slots are interchangeable)
NextSlot(r) == \A s \in Reqs : s < r => reqs[s].pc # "idle"

\* no request is in flight
Quiet == \A r \in Reqs : ~InFlight(r)

\* the store as request r found it (history variable of the sequential runs)
Snapshot(r) == [req |-> r, items |-> items, movements |-> movements]

(***************************************************************************)
(* SpecSales: concurrent sales of principal u1 against item "a"; the store *)
(* calls of the requests interleave freely.                                *)
(***************************************************************************)
SalesBatches == UNION {[1..n -> Lines({"a"})] : n \in {1, 2}}

SalesBegin ==
    \E r \in Reqs :
        /\ NextSlot(r) /\ reqs[r].pc = "idle"
        /\ \E lines \in SalesBatches : BeginSale(r, "u1", lines, Undefined)
        /\ UNCHANGED pre

SalesNext ==
    \/ SalesBegin
    \/ \E r \in Reqs : SaleStep(r)

SpecSales == InitA /\ [][SalesNext]_vars

(***************************************************************************)
(* SpecBatch: one sale or return batch of principal u1 at a time, with no  *)
(* other request in flight.  SKU "c" is an item of principal u2.           *)
(***************************************************************************)
BatchReqs == {1}

\* slot r is free and no request is in flight
Free(r) == Quiet /\ NextSlot(r) /\ reqs[r].pc = "idle"

BatchBeginSale ==
    \E r \in BatchReqs :
        /\ Free(r)
        /\ \E lines \in Batches({"a", "b", "c"}) : BeginSale(r, "u1", lines, Undefined)
        /\ pre' = Snapshot(r)

BatchBeginReturn ==
    \E r \in BatchReqs :
        /\ Free(r)
        /\ \E lines \in Batches({"a", "b", "c"}) : BeginReturn(r, "u1", lines)
        /\ pre' = Snapshot(r)

BatchNext ==
    \/ BatchBeginSale
    \/ BatchBeginReturn
    \/ \E r \in BatchReqs : SaleStep(r)
    \/ \E r \in BatchReqs : ReturnStep(r)

SpecBatch == Init /\ [][BatchNext]_vars

(***************************************************************************)
(* SpecSingle: single-item mutations of principal u1, one request at a     *)
(* time: adjustQuantity, one-line sales and returns, reversal of a         *)
(* movement.  Item 3 and movement 3 belong to principal u2.                *)
(***************************************************************************)
Deltas == {d \in -MaxQty..MaxQty : d # 0}

SingleBeginAdjust ==
    \E r \in SingleReqs :
        /\ Free(r)
        /\ \E id \in {1, 3}, delta \in Deltas, type \in AllowedTypes \cup {Undefined} :
             BeginAdjust(r, "u1", id, delta, type)
        /\ pre' = Snapshot(r)

SingleBeginSale ==
    \E r \in SingleReqs :
        /\ Free(r)
        /\ \E line \in Lines({"a", "c"}), customerName \in {Undefined, "alice"} :
             BeginSale(r, "u1", <<line>>, customerName)
        /\ pre' = Snapshot(r)

SingleBeginReturn ==
    \E r \in SingleReqs :
        /\ Free(r)
        /\ \E line \in Lines({"a", "c"}) : BeginReturn(r, "u1", <<line>>)
        /\ pre' = Snapshot(r)

SingleBeginReverse ==
    \E r \in SingleReqs :
        /\ Free(r)
        /\ \E movementId \in 1..nextId : BeginReverse(r, "u1", movementId)
        /\ pre' = Snapshot(r)

SingleNext ==
    \/ SingleBeginAdjust
    \/ SingleBeginSale
    \/ SingleBeginReturn
    \/ SingleBeginReverse
    \/ \E r \in SingleReqs : AdjustStep(r)
    \/ \E r \in SingleReqs : SaleUpdate(r) \/ SaleCreate(r)
    \/ \E r \in SingleReqs : ReturnUpdate(r) \/ ReturnCreate(r)
    \/ \E r \in SingleReqs : ReverseStep(r)

SpecSingle == InitA /\ [][SingleNext]_vars

(***************************************************************************)
(* SpecHistory: principal u1 adjusts item "a", one request at a time, and  *)
(* the item page reads the item's history page by page.                    *)
(***************************************************************************)
HistoryBeginAdjust ==
    \E r \in Reqs :
        /\ Free(r)
        /\ \E delta \in Deltas : BeginAdjust(r, "u1", 1, delta, Undefined)
        /\ pre' = Snapshot(r)

HistoryFetch == \E limit \in 1..MaxLimit : FetchItemMovements("u1", 1, limit)

HistoryNext ==
    \/ HistoryBeginAdjust
    \/ \E r \in Reqs : AdjustStep(r)
    \/ HistoryFetch
    \/ LoadMore

SpecHistory == InitA /\ [][HistoryNext]_vars

(***************************************************************************)
(* SpecItems: the requests of principal u1 that change the ledger, one at  *)
(* a time: createItem, the PUT update, deleteItem, adjustQuantity,         *)
(* one-line sales and returns, reversal of a movement.  Item 3 belongs to  *)
(* principal u2; the insert of an "initial" movement may be rejected by    *)
(* the store.                                                              *)
(***************************************************************************)
ItemsBeginCreate ==
    \E r \in SingleReqs :
        /\ Free(r)
        /\ \E name \in {"d", "D"}, quantity \in 0..MaxQty :
             BeginCreate(r, "u1", ItemBody(name, quantity, 0, Undefined))
        /\ pre' = Snapshot(r)

ItemsBeginUpdate ==
    \E r \in SingleReqs :
        /\ Free(r)
        /\ \E id \in {1, 3}, name \in {"a", "x"}, quantity \in 0..MaxQty,
              lowStockThreshold \in {0, 1}, supplierName \in {Undefined, "s"} :
             BeginUpdate(r, "u1", id, ItemBody(name, quantity, lowStockThreshold, supplierName))
        /\ pre' = Snapshot(r)

ItemsBeginDelete ==
    \E r \in SingleReqs :
        /\ Free(r)
        /\ \E id \in 1..nextId : BeginDelete(r, "u1", id)
        /\ pre' = Snapshot(r)

ItemsBeginAdjust ==
    \E r \in SingleReqs :
        /\ Free(r)
        /\ \E delta \in Deltas, type \in AllowedTypes \cup {Undefined} :
             BeginAdjust(r, "u1", 1, delta, type)
        /\ pre' = Snapshot(r)

ItemsBeginSale ==
    \E r \in SingleReqs :
        /\ Free(r)
        /\ \E line \in Lines({"a"}) : BeginSale(r, "u1", <<line>>, Undefined)
        /\ pre' = Snapshot(r)

ItemsBeginReturn ==
    \E r \in SingleReqs :
        /\ Free(r)
        /\ \E line \in Lines({"a"}) : BeginReturn(r, "u1", <<line>>)
        /\ pre' = Snapshot(r)

ItemsBeginReverse ==
    \E r \in SingleReqs :
        /\ Free(r)
        /\ \E movementId \in 1..nextId : BeginReverse(r, "u1", movementId)
        /\ pre' = Snapshot(r)

ItemsNext ==
    \/ ItemsBeginCreate
    \/ ItemsBeginUpdate
    \/ ItemsBeginDelete
    \/ ItemsBeginAdjust
    \/ ItemsBeginSale
    \/ ItemsBeginReturn
    \/ ItemsBeginReverse
    \/ \E r \in SingleReqs : CreateStep(r)
    \/ \E r \in SingleReqs : UpdateStep(r)
    \/ \E r \in SingleReqs : DeleteStep(r)
    \/ \E r \in SingleReqs : AdjustStep(r)
    \/ \E r \in SingleReqs : SaleUpdate(r) \/ SaleCreate(r)
    \/ \E r \in SingleReqs : ReturnUpdate(r) \/ ReturnCreate(r)
    \/ \E r \in SingleReqs : ReverseStep(r)

SpecItems == InitA /\ [][ItemsNext]_vars

(***************************************************************************)
(* SpecMixed: concurrent sale and return batches of principal u1 against   *)
(* item "a"; a return line for SKU "c" (an item of principal u2) is not    *)
(* applied.  The store calls of the requests interleave freely.            *)
(***************************************************************************)
ReturnBatches == UNION {[1..n -> Lines({"a", "c"})] : n \in {1, 2}}

MixedBeginSale ==
    \E r \in SingleReqs :
        /\ NextSlot(r) /\ reqs[r].pc = "idle"
        /\ \E lines \in SalesBatches : BeginSale(r, "u1", lines, Undefined)
        /\ UNCHANGED pre

MixedBeginReturn ==
    \E r \in SingleReqs :
        /\ NextSlot(r) /\ reqs[r].pc = "idle"
        /\ \E lines \in ReturnBatches : BeginReturn(r, "u1", lines)
        /\ UNCHANGED pre

MixedNext ==
    \/ MixedBeginSale
    \/ MixedBeginReturn
    \/ \E r \in SingleReqs : SaleStep(r)
    \/ \E r \in SingleReqs : ReturnStep(r)

SpecMixed == InitA /\ [][MixedNext]_vars

(***************************************************************************)
(* SpecRace: adjustQuantity of item "a" concurrent with one-line sales,    *)
(* one-line returns and other adjustments of the same item.                *)
(***************************************************************************)
RaceBeginAdjust ==
    \E r \in SingleReqs :
        /\ NextSlot(r) /\ reqs[r].pc = "idle"
        /\ \E delta \in Deltas : BeginAdjust(r, "u1", 1, delta, Undefined)
        /\ UNCHANGED pre

RaceBeginSale ==
    \E r \in SingleReqs :
        /\ NextSlot(r) /\ reqs[r].pc = "idle"
        /\ \E line \in Lines({"a"}) : BeginSale(r, "u1", <<line>>, Undefined)
        /\ UNCHANGED pre

RaceBeginReturn ==
    \E r \in SingleReqs :
        /\ NextSlot(r) /\ reqs[r].pc = "idle"
        /\ \E line \in Lines({"a"}) : BeginReturn(r, "u1", <<line>>)
        /\ UNCHANGED pre

RaceNext ==
    \/ RaceBeginAdjust
    \/ RaceBeginSale
    \/ RaceBeginReturn
    \/ \E r \in SingleReqs : AdjustStep(r)
    \/ \E r \in SingleReqs : SaleUpdate(r) \/ SaleCreate(r)
    \/ \E r \in SingleReqs : ReturnUpdate(r) \/ ReturnCreate(r)

SpecRace == InitA /\ [][RaceNext]_vars

(***************************************************************************)
(* SpecJsSales: concurrent sales of principal u1 against item "a" through  *)
(* the JavaScript handler.                                                 *)
(***************************************************************************)
JsSalesBegin ==
    \E r \in SingleReqs :
        /\ NextSlot(r) /\ reqs[r].pc = "idle"
        /\ \E lines \in SalesBatches : BeginJsSale(r, "u1", lines, Undefined)
        /\ UNCHANGED pre

JsSalesNext ==
    \/ JsSalesBegin
    \/ \E r \in SingleReqs : JsSaleStep(r)

SpecJsSales == InitA /\ [][JsSalesNext]_vars

(***************************************************************************)
(* SpecFaults: one sale or return batch of principal u1 of up to two       *)
(* lines, with no other request in flight; any store call of the loop      *)
(* body may reject.                                                        *)
(***************************************************************************)
FaultsNext ==
    \/ \E r \in BatchReqs :
         /\ Free(r)
         /\ \E lines \in ReturnBatches : BeginSale(r, "u1", lines, Undefined)
         /\ pre' = Snapshot(r)
    \/ \E r \in BatchReqs :
         /\ Free(r)
         /\ \E lines \in ReturnBatches : BeginReturn(r, "u1", lines)
         /\ pre' = Snapshot(r)
    \/ \E r \in BatchReqs : SaleStep(r)
    \/ \E r \in BatchReqs : ReturnStep(r)
    \/ \E r \in BatchReqs : SaleUpdateThrows(r)
    \/ \E r \in BatchReqs : SaleCreateThrows(r)
    \/ \E r \in BatchReqs : ReturnUpdateThrows(r)
    \/ \E r \in BatchReqs : ReturnCreateThrows(r)

SpecFaults == Init /\ [][FaultsNext]_vars

(***************************************************************************)
(* SpecCompensation: one sale or return batch of principal u1 with no      *)
(* other request in flight; any store call of the rollback loop may        *)
(* reject.                                                                 *)
(***************************************************************************)
CompensationNext ==
    \/ BatchBeginSale
    \/ BatchBeginReturn
    \/ \E r \in BatchReqs : SaleStep(r)
    \/ \E r \in BatchReqs : ReturnStep(r)
    \/ \E r \in BatchReqs : SaleRollbackIncThrows(r)
    \/ \E r \in BatchReqs : SaleRollbackDelThrows(r)
    \/ \E r \in BatchReqs : ReturnRollbackIncThrows(r)
    \/ \E r \in BatchReqs : ReturnRollbackDelThrows(r)

SpecCompensation == Init /\ [][CompensationNext]_vars

(***************************************************************************)
(* SpecReverseDelete: principal u1 sells from item "a", reverses a         *)
(* movement and deletes item "a"; the store calls of the three requests    *)
(* interleave freely.                                                      *)
(***************************************************************************)
ReverseDeleteNext ==
    \/ \E r \in Reqs :
         /\ NextSlot(r) /\ reqs[r].pc = "idle"
         /\ \E line \in Lines({"a"}) : BeginSale(r, "u1", <<line>>, Undefined)
         /\ UNCHANGED pre
    \/ \E r \in Reqs :
         /\ NextSlot(r) /\ reqs[r].pc = "idle"
         /\ \E movementId \in 1..nextId : BeginReverse(r, "u1", movementId)
         /\ UNCHANGED pre
    \/ \E r \in Reqs :
         /\ NextSlot(r) /\ reqs[r].pc = "idle"
         /\ BeginDelete(r, "u1", 1)
         /\ UNCHANGED pre
    \/ \E r \in Reqs : SaleUpdate(r) \/ SaleCreate(r)
    \/ \E r \in Reqs : ReverseStep(r)
    \/ \E r \in Reqs : DeleteStep(r)

SpecReverseDelete == InitA /\ [][ReverseDeleteNext]_vars

(***************************************************************************)
(* SpecReversals: principal u1 sells from item "a" and reverses movements, *)
(* one request at a time.                                                  *)
(***************************************************************************)
ReversalsNext ==
    \/ \E r \in Reqs :
         /\ Free(r)
         /\ \E line \in Lines({"a"}) : BeginSale(r, "u1", <<line>>, Undefined)
         /\ pre' = Snapshot(r)
    \/ \E r \in Reqs :
         /\ Free(r)
         /\ \E movementId \in 1..nextId : BeginReverse(r, "u1", movementId)
         /\ pre' = Snapshot(r)
    \/ \E r \in Reqs : SaleUpdate(r) \/ SaleCreate(r)
    \/ \E r \in Reqs : ReverseStep(r)

SpecReversals == InitA /\ [][ReversalsNext]_vars

(***************************************************************************)
(* SpecOwners: principals u1 and u2, one request at a time, each naming    *)
(* its own or the other principal's SKU ("a" of u1, "c" of u2), item id    *)
(* or movement id.                                                         *)
(***************************************************************************)
Principals == {"u1", "u2"}

OwnersNext ==
    \/ \E r \in SingleReqs :
         /\ Free(r)
         /\ \E u \in Principals, lines \in ReturnBatches : BeginSale(r, u, lines, Undefined)
         /\ pre' = Snapshot(r)
    \/ \E r \in SingleReqs :
         /\ Free(r)
         /\ \E u \in Principals, lines \in ReturnBatches : BeginReturn(r, u, lines)
         /\ pre' = Snapshot(r)
    \/ \E r \in SingleReqs :
         /\ Free(r)
         /\ \E u \in Principals, movementId \in 1..nextId : BeginReverse(r, u, movementId)
         /\ pre' = Snapshot(r)
    \/ \E r \in SingleReqs :
         /\ Free(r)
         /\ \E u \in Principals, id \in {1, 3}, delta \in Deltas :
              BeginAdjust(r, u, id, delta, Undefined)
         /\ pre' = Snapshot(r)
    \/ \E r \in SingleReqs :
         /\ Free(r)
         /\ \E u \in Principals, id \in {1, 3} : BeginDelete(r, u, id)
         /\ pre' = Snapshot(r)
    \/ \E r \in SingleReqs : SaleStep(r)
    \/ \E r \in SingleReqs : ReturnStep(r)
    \/ \E r \in SingleReqs : ReverseStep(r)
    \/ \E r \in SingleReqs : AdjustStep(r)
    \/ \E r \in SingleReqs : DeleteStep(r)

SpecOwners == InitA /\ [][OwnersNext]_vars

(***************************************************************************)
(* SpecSkus: principal u1 creates items named "d" one after the other; the *)
(* store already holds the items of k + 1 earlier creations of that name   *)
(* (skus d, d-1, ..., d-k).                                                *)
(***************************************************************************)
\* the sku of the j-th earlier creation with base sku baseSku
ExistingSku(baseSku, j) == IF j = 0 THEN baseSku ELSE Suffixed(baseSku, j)

InitSkus ==
    /\ \E k \in 0..(MaxSuffixes - 2) :
         /\ items = (1 :> ItemDoc("u1", "a", 0)) @@ (2 :> ItemDoc("u1", "b", 0))
                      @@ (3 :> ItemDoc("u2", "c", 1))
                      @@ [id \in {4 + 2 * j : j \in 0..k} |->
                            [ItemDoc("u1", ExistingSku("d", (id - 4) \div 2), 0)
                               EXCEPT !.name = "d"]]
         /\ movements = (1 :> MovementDoc("u1", 1, "initial", 0, Undefined, 1))
                          @@ (2 :> MovementDoc("u1", 2, "initial", 0, Undefined, 2))
                          @@ (3 :> MovementDoc("u2", 3, "initial", 1, Undefined, 3))
                          @@ [m \in {5 + 2 * j : j \in 0..k} |->
                                MovementDoc("u1", m - 1, "initial", 0, Undefined, m)]
         /\ nextId = 6 + 2 * k
    /\ reqs = [r \in Reqs |-> IdleReq]
    /\ pre = [req |-> 0, items |-> items, movements |-> movements]
    /\ view = NoView

SkusNext ==
    \/ \E r \in SingleReqs :
         /\ Free(r)
         /\ \E name \in {"d", "D"}, quantity \in 0..MaxQty :
              BeginCreate(r, "u1", ItemBody(name, quantity, 0, Undefined))
         /\ pre' = Snapshot(r)
    \/ \E r \in SingleReqs : CreateStep(r)

SpecSkus == InitSkus /\ [][SkusNext]_vars

(***************************************************************************)
(* Properties.                                                             *)
(***************************************************************************)
Done(r) == reqs[r].pc = "done"

Started == {r \in Reqs : reqs[r].pc # "idle"}

\* the request whose pre-state is held in pre has returned
Returned(kind) == pre.req # 0 /\ reqs[pre.req].kind = kind /\ Done(pre.req)

\* the movements created since the request began
NewMovements == DOMAIN movements \ DOMAIN pre.movements

\* every movement present when the request began is still there, unchanged
OldMovementsKept ==
    \A id \in DOMAIN pre.movements :
        id \in DOMAIN movements /\ movements[id] = pre.movements[id]

OwnedSkus(u) == {pre.items[id].sku : id \in {x \in DOMAIN pre.items : pre.items[x].userId = u}}

\* C1: under every interleaving of the store calls of concurrent sales
\* (conditional decrement, movement insert, rollback increment, rollback
\* delete) no item's quantity is ever below zero.
C1_NoNegativeStock == \A id \in DOMAIN items : items[id].quantity >= 0

\* a request has re-incremented the stock while another one holds a
\* decrement of the same, now empty, item
C1_Witness ==
    \E r1, r2 \in Reqs :
        /\ reqs[r1].pc = "rollbackDel"
        /\ reqs[r2].pc = "create"
        /\ items[1].quantity = 0

\* C2: N concurrent one-line sales of the same quantity q on one item of
\* stock S with N*q > S: exactly S \div q succeed, the others get the
\* not-applied error, and the final quantity is S - q*(S \div q) >= 0.
C2_ExactlyEnoughSucceed ==
    LET S == pre.items[1].quantity
        N == Cardinality(Started)
    IN  \A q \in Quantities :
          ( /\ \A r \in Started :
                 Done(r) /\ reqs[r].items = <<[sku |-> "a", quantity |-> q]>>
            /\ N * q > S )
          => /\ Cardinality({r \in Started : reqs[r].status = 201}) = S \div q
             /\ \A r \in Started :
                  \/ reqs[r].status = 201
                  \/ reqs[r].status = 422 /\ reqs[r].message = SaleError("a")
             /\ items[1].quantity = S - q * (S \div q)
             /\ items[1].quantity >= 0

\* three one-line sales of 1 against a stock of 2 have all returned
C2_Witness ==
    /\ Started = Reqs
    /\ \A r \in Reqs : Done(r) /\ reqs[r].items = <<[sku |-> "a", quantity |-> 1]>>
    /\ pre.items[1].quantity = 2
    /\ Cardinality({r \in Reqs : reqs[r].status = 422}) = 1

\* C3: with no other request in flight, a sale batch that fails at a line
\* that is not applied leaves every item's quantity and the set of
\* movements as they were before the batch.
C3_SaleBatchRestored ==
    (Returned("sale") /\ reqs[pre.req].status = 422)
      => /\ items = pre.items
         /\ movements = pre.movements

\* a sale batch failed at its third line after two lines on the same SKU
\* had been applied and were rolled back
C3_Witness ==
    /\ Returned("sale") /\ reqs[pre.req].status = 422
    /\ Len(reqs[pre.req].processedItems) = 2
    /\ reqs[pre.req].rbIdx = 2
    /\ reqs[pre.req].items[1].sku = reqs[pre.req].items[2].sku
    /\ reqs[pre.req].items[3].sku = "c"

\* C4: with no other request in flight, a return batch whose line k names
\* a SKU the caller has no item for restores every quantity, leaves no
\* movement of lines 1..k-1, and answers "Item with SKU <sku> not found";
\* a return line fails for no other reason (never for the stock level).
C4_ReturnBatchRestored ==
    Returned("return") =>
      LET req == reqs[pre.req]
          missing == {k \in 1..Len(req.items) : req.items[k].sku \notin OwnedSkus(req.userId)}
      IN  IF missing = {}
          THEN req.status = 201
          ELSE /\ req.status = 422
               /\ req.idx = CHOOSE k \in missing : \A j \in missing : k <= j
               /\ req.message = <<"Item with SKU ", req.items[req.idx].sku, " not found">>
               /\ \A id \in DOMAIN pre.items :
                    id \in DOMAIN items /\ items[id].quantity = pre.items[id].quantity
               /\ \A k \in 1..Len(req.processedItems) :
                    req.processedItems[k].movementId \notin DOMAIN movements
               /\ movements = pre.movements

\* a return batch failed at its third line after two lines were applied
C4_Witness ==
    /\ Returned("return") /\ reqs[pre.req].status = 422
    /\ Len(reqs[pre.req].processedItems) = 2
    /\ reqs[pre.req].rbIdx = 2
    /\ reqs[pre.req].idx = 3

\* the change a single-item request asks for
RequestedDelta(req) ==
    CASE req.kind = "adjust" -> req.delta
      [] req.kind = "sale" -> -req.items[1].quantity
      [] req.kind = "return" -> req.items[1].quantity
      [] req.kind = "reverse" -> -pre.movements[req.movementId].delta

\* C5: with no other request in flight, a successful single-item mutation
\* (adjustQuantity, reversal, one-line sale, one-line return) creates
\* exactly one movement, whose delta is the applied change; the item's
\* quantity is its quantity before plus that delta; no other item and no
\* other movement changes.
C5_OneMovementPerMutation ==
    (pre.req # 0 /\ Done(pre.req) /\ reqs[pre.req].status = 201) =>
      LET req == reqs[pre.req]
      IN  /\ Cardinality(NewMovements) = 1
          /\ OldMovementsKept
          /\ DOMAIN items = DOMAIN pre.items
          /\ \A id \in NewMovements :
               LET m == movements[id]
               IN  /\ m.delta = RequestedDelta(req)
                   /\ m.userId = req.userId
                   /\ m.itemId \in DOMAIN items
                   /\ m.delta = items[m.itemId].quantity - pre.items[m.itemId].quantity
                   /\ \A other \in DOMAIN items \ {m.itemId} :
                        items[other] = pre.items[other]
                   /\ items[m.itemId] =
                        [pre.items[m.itemId] EXCEPT !.quantity = @ + m.delta]

\* a sale is followed by a successful negative adjustment of the same item
C5_Witness ==
    /\ pre.req = 2 /\ Done(2) /\ reqs[2].status = 201
    /\ reqs[2].kind = "adjust" /\ reqs[2].delta < 0
    /\ reqs[1].kind = "sale" /\ reqs[1].status = 201

\* d1 + ... + dn of a history, newest first
RECURSIVE SumDeltas(_, _)
SumDeltas(history, n) ==
    IF n = 0 THEN 0 ELSE SumDeltas(history, n - 1) + history[n].delta

NewestFirst(history) ==
    \A i, j \in 1..Len(history) : i < j => history[i].id > history[j].id

\* C6: read unpaged and without an anchor, the history d1..dn (newest
\* first) of an item of quantity Q comes back with row i carrying
\* Q - (d1 + ... + d(i-1)) and with continuationQuantity Q - (d1 + ... + dn).
C6_FullProjection ==
    (view.itemId # 0 /\ view.page = 1 /\ Len(view.history0) <= view.limit) =>
      /\ NewestFirst(view.history0)
      /\ view.total = Len(view.history0)
      /\ Len(view.movements) = Len(view.history0)
      /\ \A i \in 1..Len(view.movements) :
           /\ view.movements[i].id = view.history0[i].id
           /\ view.movements[i].delta = view.history0[i].delta
           /\ view.movements[i].runningQuantity
                = view.quantity0 - SumDeltas(view.history0, i - 1)
      /\ view.continuationQuantity
           = view.quantity0 - SumDeltas(view.history0, Len(view.history0))

\* a history of three movements read in one page, the running quantity
\* crossing zero
C6_Witness ==
    /\ view.itemId # 0 /\ view.page = 1
    /\ Len(view.history0) = 3 /\ view.limit = 3
    /\ view.movements[1].runningQuantity < 0
    /\ view.movements[2].runningQuantity > 0

\* C7: for every page size, page 1 read without an anchor and every later
\* page read with the continuationQuantity of the page before it (0 and
\* negative values included), the movements being the same throughout: the
\* pages put together carry the running quantities of one projection over
\* the whole history, and the last continuationQuantity is Q minus the sum
\* of all deltas.
C7_PagedEqualsUnpaged ==
    view.intact =>
      LET loaded == Len(view.movements)
          n == Len(view.history0)
          upTo == IF view.page * view.limit < n THEN view.page * view.limit ELSE n
      IN  /\ loaded = upTo
          /\ \A i \in 1..loaded :
               /\ view.movements[i].id = view.history0[i].id
               /\ view.movements[i].runningQuantity
                    = view.quantity0 - SumDeltas(view.history0, i - 1)
          /\ view.continuationQuantity = view.quantity0 - SumDeltas(view.history0, loaded)
          /\ loaded = n =>
               view.continuationQuantity = view.quantity0 - SumDeltas(view.history0, n)

\* pages of one row: page 2 was read with the anchor 0, page 3 with -1
C7_Witness ==
    /\ view.intact /\ view.limit = 1 /\ view.page >= 3
    /\ view.movements[2].runningQuantity = 0
    /\ view.movements[3].runningQuantity = -1

\* C8: reversing a movement whose type is return, adjustment, purchase or
\* initial fails, and no item and no movement changes.
C8_NonSaleNotReversible ==
    (pre.req # 0 /\ reqs[pre.req].kind = "reverse") =>
      LET req == reqs[pre.req]
      IN  ( /\ req.movementId \in DOMAIN pre.movements
            /\ pre.movements[req.movementId].type
                 \in {"return", "adjustment", "purchase", "initial"} )
          => /\ items = pre.items
             /\ movements = pre.movements
             /\ Done(pre.req) => req.status \in {400, 404}

\* the reversal of a purchase movement of the caller was refused
C8_Witness ==
    /\ Returned("reverse") /\ reqs[pre.req].status = 400
    /\ pre.movements[reqs[pre.req].movementId].type = "purchase"
    /\ pre.movements[reqs[pre.req].movementId].userId = "u1"

\* C9: reversing a sale movement of the caller with delta -q (q >= 1) whose
\* item exists creates exactly one movement, of type return, delta +q and
\* the sale's customerName, and adds q to the item's quantity; a sale
\* followed by its reversal leaves the item at its quantity before the sale.
C9_ReversalInverse ==
    Returned("reverse") =>
      LET req == reqs[pre.req]
          mid == req.movementId
      IN  ( /\ mid \in DOMAIN pre.movements
            /\ pre.movements[mid].userId = req.userId
            /\ pre.movements[mid].type = "sale"
            /\ pre.movements[mid].delta <= -1
            /\ pre.movements[mid].itemId \in DOMAIN pre.items
            /\ pre.items[pre.movements[mid].itemId].userId = req.userId )
          => LET sale == pre.movements[mid]
                 q == -sale.delta
             IN  /\ req.status = 201
                 /\ Cardinality(NewMovements) = 1
                 /\ OldMovementsKept
                 /\ \A id \in NewMovements :
                      /\ movements[id].type = "return"
                      /\ movements[id].delta = q
                      /\ movements[id].customerName = sale.customerName
                      /\ movements[id].itemId = sale.itemId
                      /\ movements[id].userId = req.userId
                 /\ items[sale.itemId].quantity = pre.items[sale.itemId].quantity + q
                 /\ (reqs[1].kind = "sale" /\ pre.req = 2)
                      => items[sale.itemId].quantity = movements[1].delta

\* a sale to "alice" was recorded and then reversed
C9_Witness ==
    /\ Returned("reverse") /\ pre.req = 2 /\ reqs[2].status = 201
    /\ reqs[1].kind = "sale" /\ reqs[1].customerName = "alice"
    /\ reqs[1].items[1].quantity = 2
    /\ reqs[2].movementId = reqs[1].processedItems[1].movementId

\* C10: an adjustment without a type is recorded as purchase when delta > 0
\* and as adjustment when delta < 0; with one of the five types it is
\* recorded with that type, whatever the sign of delta.
C10_AdjustmentType ==
    (Returned("adjust") /\ reqs[pre.req].status = 201) =>
      LET req == reqs[pre.req]
      IN  /\ NewMovements # {}
          /\ \A id \in NewMovements :
               movements[id].type =
                 IF req.type = Undefined
                 THEN (IF req.delta > 0 THEN "purchase" ELSE "adjustment")
                 ELSE req.type

\* a positive adjustment typed "sale", then an untyped positive adjustment
C10_Witness ==
    /\ Returned("adjust") /\ pre.req = 2 /\ reqs[2].status = 201
    /\ reqs[2].type = Undefined /\ reqs[2].delta > 0
    /\ reqs[1].kind = "adjust" /\ reqs[1].status = 201
    /\ reqs[1].type = "sale" /\ reqs[1].delta > 0

\* the movements of a store that reference item id
MovementsOf(coll, id) == {m \in DOMAIN coll : coll[m].itemId = id}

\* C11: after a successful deleteItem on an item with N >= 0 movements, no
\* other request being in flight, the item no longer exists and no movement
\* references its id; every other item and the movements of every other
\* item are as they were.
C11_DeleteCascades ==
    (Returned("delete") /\ reqs[pre.req].status = 200) =>
      LET id == reqs[pre.req].id
      IN  /\ id \in DOMAIN pre.items
          /\ id \notin DOMAIN items
          /\ MovementsOf(movements, id) = {}
          /\ DOMAIN items = DOMAIN pre.items \ {id}
          /\ \A other \in DOMAIN items : items[other] = pre.items[other]
          /\ DOMAIN movements = DOMAIN pre.movements \ MovementsOf(pre.movements, id)
          /\ \A m \in DOMAIN movements : movements[m] = pre.movements[m]

\* item "a" was adjusted and then deleted with its two movements
C11_Witness ==
    /\ Returned("delete") /\ pre.req = 2 /\ reqs[2].status = 200
    /\ reqs[1].kind = "adjust" /\ reqs[1].status = 201
    /\ Cardinality(MovementsOf(pre.movements, reqs[2].id)) = 2
    /\ Cardinality(DOMAIN movements) = 2

\* C12: under every interleaving of concurrent sale and return batches on
\* one item, their rollback steps included, the item's quantity is never
\* below zero.
C12_MixedNoNegativeStock ==
    (\A r \in Started : reqs[r].kind \in {"sale", "return"}) =>
      \A id \in DOMAIN items : ~(items[id].quantity < 0)

\* the sum of the changes the requests of a set ask for
RECURSIVE SumRequested(_)
SumRequested(rs) ==
    IF rs = {}
    THEN 0
    ELSE LET r == CHOOSE x \in rs : TRUE
         IN  RequestedDelta(reqs[r]) + SumRequested(rs \ {r})

\* C13: adjustQuantity concurrent with a sale, a return or another
\* adjustment of the same item: once all requests have completed
\* successfully, the item's quantity is its initial quantity plus the sum
\* of the deltas of all those requests.
C13_NoLostUpdate ==
    ( /\ \E r \in Started : reqs[r].kind = "adjust"
      /\ \A r \in Started :
           /\ reqs[r].kind \in {"adjust", "sale", "return"}
           /\ Done(r) /\ reqs[r].status = 201 )
    => items[1].quantity = pre.items[1].quantity + SumRequested(Started)

\* the quantity a batch asks for, over its first n lines
RECURSIVE BatchQuantity(_, _)
BatchQuantity(lines, n) ==
    IF n = 0 THEN 0 ELSE BatchQuantity(lines, n - 1) + lines[n].quantity

\* C14: in the JavaScript sale handler the stock check and the decrement
\* are atomic: two concurrent sales of one item never both succeed when
\* their combined quantity exceeds the stock, and the item's quantity is
\* never negative.
C14_JsSaleAtomic ==
    /\ \A id \in DOMAIN items : items[id].quantity >= 0
    /\ \A r1, r2 \in Started :
         ( /\ r1 # r2
           /\ reqs[r1].kind = "jsSale" /\ reqs[r2].kind = "jsSale"
           /\ BatchQuantity(reqs[r1].items, Len(reqs[r1].items))
                + BatchQuantity(reqs[r2].items, Len(reqs[r2].items))
                > pre.items[1].quantity )
         => ~(reqs[r1].status = 201 /\ reqs[r2].status = 201)

\* C15: when a store call of line k of a sale or return batch rejects (the
\* conditional update, or the movement insert after the update), the lines
\* 1..k-1 are compensated before the error is returned: their movements
\* are deleted and their quantity changes undone, so that every item
\* differs from its quantity before the batch only by line k's own update.
C15_StorageErrorCompensated ==
    \A call \in {"update", "create"} :
      ( /\ pre.req # 0 /\ Done(pre.req)
        /\ reqs[pre.req].kind \in {"sale", "return"}
        /\ reqs[pre.req].message = StorageError(call) )
      => LET req == reqs[pre.req]
             own == IF call = "create"
                    THEN (IF req.kind = "sale" THEN -1 ELSE 1) * req.items[req.idx].quantity
                    ELSE 0
         IN  /\ \A k \in 1..Len(req.processedItems) :
                  req.processedItems[k].movementId \notin DOMAIN movements
             /\ \A id \in DOMAIN items :
                  items[id].quantity = pre.items[id].quantity
                      + (IF call = "create" /\ id = req.existingItem THEN own ELSE 0)

\* C16: the PUT update of an item may change name, lowStockThreshold and
\* supplierName but leaves the item's quantity as it was (quantity changes
\* only through sale, return, reversal and adjustment, each recording a
\* movement); it creates and deletes no movement.
C16_UpdateKeepsQuantity ==
    (Returned("update") /\ reqs[pre.req].status = 200) =>
      LET id == reqs[pre.req].id
      IN  /\ items[id].quantity = pre.items[id].quantity
          /\ items[id].sku = pre.items[id].sku
          /\ items[id].userId = pre.items[id].userId
          /\ \A other \in DOMAIN items \ {id} : items[other] = pre.items[other]
          /\ movements = pre.movements

\* the sign a movement's delta has for its type
SignFits(movement) ==
    CASE movement.type = "sale" -> movement.delta < 0
      [] movement.type \in {"return", "purchase", "initial"} -> movement.delta > 0
      [] movement.type = "adjustment" -> movement.delta # 0

\* C17: every movement a request stores has a delta whose sign fits its
\* type: negative for sale, positive for return, purchase and initial,
\* non-zero for adjustment; createItem with initial quantity 0 and
\* adjustQuantity with an explicit type included.
C17_DeltaSignFitsType ==
    \A id \in NewMovements : SignFits(movements[id])

\* C18: whenever no request is in flight, after any sequence of createItem,
\* recordSale, recordReturn, reverseSaleMovement and adjustQuantity requests
\* with validated inputs, every item's quantity is >= 0.
C18_NonNegativeAtRest ==
    ( /\ Quiet
      /\ \A r \in Started :
           reqs[r].kind \in {"create", "sale", "return", "reverse", "adjust"} )
    => \A id \in DOMAIN items : 0 <= items[id].quantity

\* the lines of a batch whose movement is no longer stored
Deleted(req) ==
    {k \in 1..Len(req.processedItems) :
        req.processedItems[k].movementId \notin DOMAIN movements}

\* the quantity the applied lines after line c have moved on item id
RECURSIVE AppliedAfter(_, _, _)
AppliedAfter(req, c, id) ==
    IF c >= Len(req.processedItems)
    THEN 0
    ELSE (IF req.processedItems[c + 1].itemId = id
          THEN req.processedItems[c + 1].quantity
          ELSE 0) + AppliedAfter(req, c + 1, id)

Compensating(r) == reqs[r].pc \in {"rollbackInc", "rollbackDel"}

\* C19 as stated: the compensation of an aborted batch visits the applied
\* lines in reverse order of application (line k-1 first, line 1 last):
\* a line's movement is deleted only after those of all later lines.
C19_ReverseOrder ==
    \A r \in Reqs :
        Compensating(r) =>
          \A i, j \in 1..Len(reqs[r].processedItems) :
              (i < j /\ i \in Deleted(reqs[r])) => j \in Deleted(reqs[r])

\* C19, amended: the compensation visits the applied lines in the order of
\* application (line 1 first, line k-1 last), and for each line applies the
\* negated delta and then deletes the line's movement: the deleted
\* movements are those of lines 1..d, and the lines whose delta is undone
\* are 1..d, or 1..d+1 between the two store calls of a line.
C19_ForwardOrder ==
    \A r \in Reqs :
        (Compensating(r) \/ (Done(r) /\ reqs[r].rbIdx > 0)) =>
          LET req == reqs[r]
              d == Cardinality(Deleted(req))
              sign == IF req.kind = "sale" THEN -1 ELSE 1
              c == IF req.pc = "rollbackDel" THEN d + 1 ELSE d
          IN  /\ Deleted(req) = 1..d
              /\ d = IF Done(r) THEN Len(req.processedItems) ELSE req.rbIdx - 1
              /\ \A id \in DOMAIN items :
                   items[id].quantity
                     = pre.items[id].quantity + sign * AppliedAfter(req, c, id)

\* line 1 of an aborted batch is compensated and its movement deleted while
\* the movement of line 2 is still stored
C19_Witness ==
    \E r \in Reqs :
        /\ reqs[r].pc = "rollbackInc" /\ reqs[r].rbIdx = 2
        /\ Deleted(reqs[r]) = {1}
        /\ reqs[r].processedItems[1].itemId # reqs[r].processedItems[2].itemId

\* the stock of the caller's item with a SKU when the batch began
StockBefore(u, sku) ==
    LET id == CHOOSE x \in DOMAIN pre.items :
                  pre.items[x].sku = sku /\ pre.items[x].userId = u
    IN  pre.items[id].quantity

\* the quantity the lines before line k ask for on a SKU
RECURSIVE AskedBefore(_, _, _)
AskedBefore(lines, k, sku) ==
    IF k <= 1
    THEN 0
    ELSE (IF lines[k - 1].sku = sku THEN lines[k - 1].quantity ELSE 0)
           + AskedBefore(lines, k - 1, sku)

\* line k asks for more than the lines before it have left
Exceeds(u, lines, k) ==
    \/ lines[k].sku \notin OwnedSkus(u)
    \/ lines[k].quantity
         > StockBefore(u, lines[k].sku) - AskedBefore(lines, k, lines[k].sku)

\* C20: the lines of a sale batch are applied in input order, one at a
\* time, each check seeing the lines before it: the batch fails at the
\* first line that asks for more than the earlier lines have left of its
\* item (even when each line alone is within the stock), and succeeds when
\* no line does.
C20_LinesInInputOrder ==
    /\ \A r \in Reqs :
         reqs[r].kind = "sale" =>
           LET req == reqs[r]
           IN  /\ Len(req.processedItems) \in {req.idx - 1, req.idx}
               /\ \A j \in 1..Len(req.processedItems) :
                    /\ req.processedItems[j].quantity = req.items[j].quantity
                    /\ pre.items[req.processedItems[j].itemId].sku = req.items[j].sku
                    /\ \A i \in 1..(j - 1) :
                         req.processedItems[i].movementId < req.processedItems[j].movementId
    /\ Returned("sale") =>
         LET req == reqs[pre.req]
             failing == {k \in 1..Len(req.items) : Exceeds(req.userId, req.items, k)}
         IN  IF failing = {}
             THEN /\ req.status = 201
                  /\ Len(req.processedItems) = Len(req.items)
             ELSE /\ req.status = 422
                  /\ req.idx = CHOOSE k \in failing : \A j \in failing : k <= j
                  /\ req.message = SaleError(req.items[req.idx].sku)

\* three lines of 1 on item "a" with stock 2, each within the stock alone:
\* the batch failed at its third line
C20_Witness ==
    /\ Returned("sale") /\ reqs[pre.req].status = 422 /\ reqs[pre.req].idx = 3
    /\ \A k \in 1..3 : reqs[pre.req].items[k] = [sku |-> "a", quantity |-> 1]
    /\ pre.items[1].quantity = 2

\* the domain error of a batch that was not applied at its line idx
DomainError(req) ==
    IF req.kind = "sale"
    THEN SaleError(req.items[req.idx].sku)
    ELSE ReturnError(req.items[req.idx].sku)

\* C21: a compensation step that fails is not re-thrown: after the update
\* of a line (failed or not) its delete is attempted, after the delete
\* (failed or not) the next applied line is visited, and after the last
\* one the caller gets the one domain error naming the SKU of the line
\* that was not applied.
C21_CompensationFailureSwallowed ==
    [][ \A r \in BatchReqs :
          LET req == reqs[r]
          IN  /\ req.pc = "rollbackInc" =>
                   /\ reqs'[r].pc = "rollbackDel"
                   /\ reqs'[r].rbIdx = req.rbIdx
              /\ req.pc = "rollbackDel" =>
                   IF req.rbIdx < Len(req.processedItems)
                   THEN /\ reqs'[r].pc = "rollbackInc"
                        /\ reqs'[r].rbIdx = req.rbIdx + 1
                   ELSE /\ reqs'[r].pc = "done"
                        /\ reqs'[r].status = 422
                        /\ reqs'[r].message = DomainError(req) ]_vars

\* the delete of line 1's movement failed, line 2 was still compensated
\* and its movement deleted, and the caller got the domain error
C21_Witness ==
    /\ Returned("sale") /\ reqs[pre.req].status = 422
    /\ reqs[pre.req].idx = 3
    /\ reqs[pre.req].message = SaleError(reqs[pre.req].items[3].sku)
    /\ Deleted(reqs[pre.req]) = {2}
    /\ \A id \in DOMAIN items : items[id].quantity = pre.items[id].quantity

Aborted(req) == req.pc \in {"rollbackInc", "rollbackDel"} \/ (req.pc = "done" /\ req.status = 422)

\* C22: the first line of a sale batch that is not applied ends the batch:
\* the error names the SKU of that line k, and from then on the request
\* issues no conditional decrement and no movement insert (lines k+1..n
\* are never processed: the loop position stays at k, quantities only go
\* back up and no movement is added).
C22_FirstNotAppliedEndsBatch ==
    /\ [](\A r \in BatchReqs :
            (reqs[r].kind = "sale" /\ Done(r) /\ reqs[r].status = 422) =>
               /\ reqs[r].message = SaleError(reqs[r].items[reqs[r].idx].sku)
               /\ Len(reqs[r].processedItems) = reqs[r].idx - 1)
    /\ [][ \A r \in BatchReqs :
             (reqs[r].kind = "sale" /\ Aborted(reqs[r])) =>
                /\ Aborted(reqs'[r])
                /\ reqs'[r].idx = reqs[r].idx
                /\ reqs'[r].processedItems = reqs[r].processedItems
                /\ DOMAIN movements' \subseteq DOMAIN movements
                /\ nextId' = nextId
                /\ \A id \in DOMAIN items :
                     items'[id].quantity >= items[id].quantity ]_vars

\* a batch failed at line 2 (a SKU of another principal) with a third line
\* that the stock of item "b" would have covered
C22_Witness ==
    /\ Returned("sale") /\ reqs[pre.req].status = 422 /\ reqs[pre.req].idx = 2
    /\ Len(reqs[pre.req].items) = 3
    /\ reqs[pre.req].items[2].sku = "c"
    /\ reqs[pre.req].items[3].sku = "b"
    /\ pre.items[2].quantity >= reqs[pre.req].items[3].quantity
    /\ items[2].quantity = pre.items[2].quantity

\* the sum of the deltas of a set of movements
RECURSIVE LedgerSum(_, _)
LedgerSum(coll, ids) ==
    IF ids = {}
    THEN 0
    ELSE LET m == CHOOSE x \in ids : TRUE
         IN  coll[m].delta + LedgerSum(coll, ids \ {m})

\* what item id holds beyond the deltas of the movements that reference it
Unrecorded(id) == items[id].quantity - LedgerSum(movements, MovementsOf(movements, id))

Succeeded == {r \in Started : Done(r) /\ reqs[r].status = 201}

\* the quantity the successful sale batches of a set of requests took
RECURSIVE QuantitySold(_)
QuantitySold(rs) ==
    IF rs = {}
    THEN 0
    ELSE LET r == CHOOSE x \in rs : TRUE
         IN  BatchQuantity(reqs[r].items, Len(reqs[r].items)) + QuantitySold(rs \ {r})

\* C24: a sale batch that applied line 1 on item "a" and then aborts,
\* concurrent with sales of the same item that succeed: under every
\* interleaving, once all have returned, the quantity of "a" is its initial
\* quantity minus what the successful sales took, and the movements of "a"
\* are its initial one and those of the successful sales.
C24_CompensationUnderInterference ==
    ( /\ \A r \in Started : Done(r)
      /\ \E r \in Started : reqs[r].status = 422 /\ reqs[r].processedItems # <<>> )
    => /\ items[1].quantity = pre.items[1].quantity - QuantitySold(Succeeded)
       /\ MovementsOf(movements, 1)
            = {1} \cup UNION {{reqs[r].processedItems[k].movementId :
                                   k \in DOMAIN reqs[r].processedItems} :
                               r \in Succeeded}

\* a batch applied its line 1 and aborted at line 2, and a one-line sale
\* that stored its movement right after that of line 1 succeeded
C24_Witness ==
    /\ Started = {1, 2} /\ Done(1) /\ Done(2)
    /\ reqs[1].status = 422 /\ Len(reqs[1].processedItems) = 1
    /\ reqs[2].status = 201 /\ Len(reqs[2].items) = 1
    /\ reqs[2].processedItems[1].movementId = reqs[1].processedItems[1].movementId + 1
    /\ items[1].quantity = pre.items[1].quantity - reqs[2].items[1].quantity

\* C25: when the item of a sale movement no longer exists as the reversal
\* runs (deleted before the reversal, or between its movement lookup and
\* its quantity update), the reversal fails, creates no return movement and
\* changes no item's quantity.
C25_ReverseOfDeletedItemFails ==
    /\ [][ \A r \in Reqs :
             ( /\ reqs[r].kind = "reverse" /\ reqs'[r] # reqs[r]
               /\ \/ reqs[r].pc = "update" /\ reqs[r].id \notin DOMAIN items
                  \/ /\ reqs[r].pc = "findMovement"
                     /\ reqs[r].movementId \notin DOMAIN movements )
             => /\ reqs'[r].pc = "done"
                /\ reqs'[r].status \in {404, 500}
                /\ items' = items
                /\ movements' = movements ]_vars
    /\ [](\A r \in Reqs :
            (reqs[r].kind = "reverse" /\ Done(r) /\ reqs[r].status # 201) =>
               \A m \in DOMAIN movements :
                   movements[m].type = "return" =>
                     \E other \in Reqs \ {r} :
                         reqs[other].kind = "reverse" /\ reqs[other].existingItem # 0)

\* the item was deleted between the movement lookup and the quantity
\* update of the reversal of its sale
C25_Witness ==
    \E r, d \in Reqs :
        /\ reqs[r].kind = "reverse" /\ Done(r) /\ reqs[r].status = 500
        /\ reqs[r].message = <<"Associated item not found">>
        /\ reqs[r].returnQuantity > 0
        /\ reqs[d].kind = "delete" /\ reqs[d].pc = "deleteMany"
        /\ reqs[r].movementId \in DOMAIN movements

\* C26: at rest, after any sequence of non-overlapping createItem, sale,
\* return, reversal and adjustment requests, successful or failed, in
\* which no store call was rejected, every existing item's quantity is the
\* sum of the deltas of the movements that reference it.
C26_LedgerConsistentAtRest ==
    ( /\ Quiet
      /\ \A r \in Started :
           /\ reqs[r].kind \in {"create", "sale", "return", "reverse", "adjust"}
           /\ reqs[r].status # 500 )
    => \A id \in DOMAIN items :
         items[id].quantity = LedgerSum(movements, MovementsOf(movements, id))

\* an item was created with quantity 2, then a sale of item "a" was refused
C26_Witness ==
    /\ Quiet /\ Started = {1, 2}
    /\ reqs[1].kind = "create" /\ reqs[1].status = 201 /\ reqs[1].body.quantity = 2
    /\ reqs[2].kind = "sale" /\ reqs[2].status = 422
    /\ Cardinality(DOMAIN items) = 4

\* the quantity the successful reversals of movement m have added back
RECURSIVE Reversed(_, _)
Reversed(m, rs) ==
    IF rs = {}
    THEN 0
    ELSE LET r == CHOOSE x \in rs : TRUE
         IN  (IF reqs[r].kind = "reverse" /\ reqs[r].movementId = m
                   /\ reqs[r].status = 201
              THEN reqs[r].returnQuantity
              ELSE 0) + Reversed(m, rs \ {r})

\* C27: a sale movement is reversed at most once: over any sequence of
\* reversals of one sale movement with delta -q, the quantity added back
\* to the item, and the total delta of the return movements created for
\* it (one per successful reversal), never exceed q.
C27_ReversedAtMostOnce ==
    \A m \in DOMAIN movements :
        movements[m].type = "sale" =>
          /\ Reversed(m, Reqs) <= -movements[m].delta
          /\ Cardinality({r \in Reqs : /\ reqs[r].kind = "reverse"
                                       /\ reqs[r].movementId = m
                                       /\ reqs[r].status = 201}) <= 1

\* the documents of a collection that principal u does not own
NotOwnedBy(coll, u) == {x \in DOMAIN coll : coll[x].userId # u}

\* the request names an item or a movement of another principal
NamesForeign(req) ==
    CASE req.kind = "adjust" -> req.id \in NotOwnedBy(pre.items, req.userId)
      [] req.kind = "delete" -> req.id \in NotOwnedBy(pre.items, req.userId)
      [] req.kind = "reverse" -> req.movementId \in NotOwnedBy(pre.movements, req.userId)
      [] OTHER -> \E k \in 1..Len(req.items) :
                     req.items[k].sku \notin OwnedSkus(req.userId)

\* C28: owner isolation: no step of a sale, return, reversal, adjustment,
\* deleteItem or rollback of principal A changes or deletes an item or a
\* movement of another principal, creates a movement owned by another, or
\* loads one into the request; a request naming another principal's SKU,
\* item id or movement id is answered as not found and leaves the store as
\* it was.
C28_OwnerIsolation ==
    /\ [][ \A r \in SingleReqs :
             reqs'[r] # reqs[r] =>
               LET u == reqs'[r].userId
               IN  /\ \A id \in NotOwnedBy(items, u) :
                        id \in DOMAIN items' /\ items'[id] = items[id]
                   /\ \A m \in NotOwnedBy(movements, u) :
                        m \in DOMAIN movements' /\ movements'[m] = movements[m]
                   /\ \A m \in DOMAIN movements' \ DOMAIN movements :
                        /\ movements'[m].userId = u
                        /\ items[movements'[m].itemId].userId = u ]_vars
    /\ [](\A r \in SingleReqs :
            (reqs[r].kind = "reverse"
               /\ reqs[r].movementId \in NotOwnedBy(movements, reqs[r].userId))
            => /\ reqs[r].returnQuantity = 0
               /\ reqs[r].id = 0
               /\ reqs[r].pc \in {"findMovement", "done"})
    /\ [](( /\ pre.req # 0 /\ Done(pre.req) /\ NamesForeign(reqs[pre.req]) )
            => /\ reqs[pre.req].status \in {404, 422}
               /\ items = pre.items
               /\ movements = pre.movements)

\* u1's batch was rolled back at a line naming u2's SKU "c", then u1's
\* reversal of u2's movement 3 was answered 404
C28_Witness ==
    /\ reqs[1].kind = "sale" /\ reqs[1].userId = "u1" /\ reqs[1].status = 422
    /\ Len(reqs[1].processedItems) = 1 /\ reqs[1].items[2].sku = "c"
    /\ reqs[2].kind = "reverse" /\ reqs[2].userId = "u1" /\ reqs[2].movementId = 3
    /\ reqs[2].status = 404
    /\ items[3] = pre.items[3] /\ movements[3] = pre.movements[3]

\* C29: createItem always obtains an unused SKU: creating items of the same
\* name one after the other never fails with the duplicate-SKU error, and
\* the sku chosen when the base is taken is base-(greatest numeric suffix
\* in use + 1).
C29_CreateObtainsUnusedSku ==
    \A r \in SingleReqs :
        reqs[r].kind = "create" =>
          /\ reqs[r].status # 409
          /\ reqs[r].pc \in {"save", "createMovement"} =>
               LET baseSku == GenerateSkuFromName(reqs[r].body.name)
                   taken == {n \in 0..MaxSuffixes : \E id \in DOMAIN pre.items :
                               pre.items[id].sku = ExistingSku(baseSku, n)}
               IN  taken # {} =>
                     \E n \in taken :
                        /\ \A m \in taken : m <= n
                        /\ reqs[r].sku = Suffixed(baseSku, n + 1)

\* the batch of a request fits the stock its principal's items had at first
WouldSucceed(req) ==
    \A k \in 1..Len(req.items) : ~Exceeds(req.userId, req.items, k)

\* C30: an aborted batch has no effect on other requests: a sale that
\* would succeed against the stock before the aborted batch is never
\* rejected as insufficient while the only other requests are batches that
\* abort (their decrements not yet, or by now, restored).
C30_AbortedBatchInvisible ==
    \A r \in Started :
        ( /\ reqs[r].kind = "sale"
          /\ WouldSucceed(reqs[r])
          /\ \A s \in Started \ {r} : Aborted(reqs[s]) /\ ~WouldSucceed(reqs[s]) )
        => ~(Done(r) /\ reqs[r].status = 422)

====
